---- MODULE Spec2Model ----
(***************************************************************************)
(* Ingestion service: the Kafka producer adapter (services.KafkaService),  *)
(* the publish retry loop of the event handler                             *)
(* (EventHandler.publishEventToKafka) and the calls made on them.          *)
(*                                                                         *)
(* One KafkaService instance is built by NewKafkaService.  Request         *)
(* handlers (publishers) run publishEventToKafka concurrently with each    *)
(* other, with Close, and with the producer draining its input channel.    *)
(*                                                                         *)
(* Spec is the service and its handlers under any use of the API;          *)
(* SpecMain is the process as func main drives it (start, serve, signal,   *)
(* Shutdown, deferred Close); SpecConn is the service for every            *)
(* configuration, with its listener goroutines and the stats endpoint;     *)
(* SpecSend lets senders park in PublishMessage's second select; SpecAck   *)
(* adds the broker's answers and handleErrors to the senders.              *)
(* SpecRetries is SpecSend for every configuration; SpecEnrich is one      *)
(* models.EnrichEvent call for every payload timestamp.                    *)
(***************************************************************************)
EXTENDS Integers, Sequences, FiniteSets, TLC

\* ---------------------------------------------------------------- bounds
NumPublishers == 1      \* concurrent request handlers, one Publish each
QueueCap == 1           \* messages the producer's Input() holds before a send blocks
MaxCloseCalls == 2      \* calls of KafkaService.Close made on the instance

\* ------------------------------------------------------ program constants
maxRetries == 3         \* handlers: maxRetries := 3
BackoffUnitMs == 100    \* handlers: time.Millisecond * 100
DefaultRetries == 3     \* config: getEnvAsInt("KAFKA_RETRIES", 3)

Pubs == 1..NumPublishers

\* config.LoadConfig with no environment set: KAFKA_BROKERS, KAFKA_TOPIC,
\* KAFKA_ACKS, KAFKA_COMPRESSION, KAFKA_RETRIES.
DefaultConfig ==
    [Brokers |-> "localhost:9092", Topic |-> "user-activity-events",
     Acks |-> "all", Compression |-> "snappy", Retries |-> DefaultRetries]

\* The KafkaConfig values NewKafkaService is given: the defaults, another
\* accepted configuration, and ones with an acks or a compression value that
\* initializeProducer's switches do not list.
ConfigInputs ==
    { DefaultConfig,
      [Brokers |-> "kafka:29092", Topic |-> "events",
       Acks |-> "all", Compression |-> "gzip", Retries |-> DefaultRetries + 2],
      [DefaultConfig EXCEPT !.Retries = 1],
      [DefaultConfig EXCEPT !.Acks = "quorum"],
      [DefaultConfig EXCEPT !.Compression = "brotli"],
      [DefaultConfig EXCEPT !.Acks = "2", !.Compression = "zip"] }

\* Error values returned by PublishMessage ("nil" is success).
ErrNil == "nil"
ErrShuttingDown == "kafka service is shutting down"
ErrMarshal == "failed to marshal message value"
ErrCtxCancelled == "context cancelled while sending message"

VARIABLES
    config,         \* ks.config (Brokers, Topic, Acks, Compression, Retries)
    producer,       \* ks.producer: "nil" or "producer"
    ctxDone,        \* ks.ctx is cancelled
    created,        \* what NewKafkaService returned: "none" (not called), "ok", "error"
    producerState,  \* the sarama producer: "none", "open", "closing", "closed"
    input,          \* messages on producer.Input(), each the key (publisher) of its event
    closer,         \* the task calling Close: pc, calls made, producer.Close calls, last error
    faulted,        \* the process has panicked
    pub,            \* per request handler: the state of its publishEventToKafka call
    main,           \* func main: pc, the HTTP server accepting requests, Shutdown hit its deadline
    bg,             \* the listener goroutines, NewAsyncProducer was called, the Errors() stream, keys logged
    stats,          \* "kafka" entry of the last /api/v1/stats response (status "none" before the first)
    ev              \* an EnrichEvent call: payload.Timestamp, time.Now(), the returned Timestamp

vars == <<config, producer, ctxDone, created, producerState, input, closer, faulted, pub, main, bg, stats, ev>>

\* ------------------------------------------------------------- KafkaService

\* initializeProducer: the acks switch, the compression switch, then
\* sarama.NewAsyncProducer, which succeeds or not (brokersOK).
\* config.Producer.Retry.Max = ks.config.Retries: the only use of the
\* configured retry count.
ProducerRetryMax(cfg) == cfg.Retries

\* The part before sarama.NewAsyncProducer is configError: an error here returns
\* before any broker is contacted.
configErrorNone(cfg) == ErrNil

configError(cfg) ==
    IF cfg.Acks \notin {"all", "1", "0"} THEN "invalid acks value"
    ELSE IF cfg.Compression \notin {"none", "gzip", "snappy", "lz4", "zstd"} THEN "invalid compression"
    ELSE ErrNil

initializeProducer(cfg, brokersOK) ==
    IF configError(cfg) # ErrNil THEN configError(cfg)
    ELSE IF ~brokersOK THEN "failed to create Kafka producer"
    ELSE ErrNil

\* NewKafkaService: builds ctx/cancel and the service; on an initializeProducer
\* error cancels and returns nil, otherwise the producer is set, the two
\* listener goroutines (handleErrors, handleSuccesses) are started and the
\* instance is returned. bg.dialed: sarama.NewAsyncProducer was called.
NewKafkaService(brokersOK) ==
    /\ created = "none"
    /\ LET err == initializeProducer(config, brokersOK) IN
         IF err # ErrNil
         THEN /\ ctxDone' = TRUE
              /\ created' = "error"
              /\ bg' = [bg EXCEPT !.dialed = (configError(config) = ErrNil)]
              /\ UNCHANGED <<producer, producerState>>
         ELSE /\ producer' = "producer"
              /\ producerState' = "open"
              /\ created' = "ok"
              /\ bg' = [bg EXCEPT !.dialed = TRUE, !.errL = "running", !.sucL = "running"]
              /\ UNCHANGED ctxDone
    /\ UNCHANGED <<config, input, closer, faulted, pub, main, stats, ev>>

\* HealthCheck: error when ks.ctx is done, error when ks.producer is nil, else nil.
HealthCheckNoCtx(done, prod) ==
    IF prod = "nil" THEN "kafka producer is not initialized" ELSE ErrNil

HealthCheck(done, prod) ==
    IF done THEN ErrShuttingDown
    ELSE IF prod = "nil" THEN "kafka producer is not initialized"
    ELSE ErrNil

\* EventHandler.HealthCheck: "healthy" unless KafkaService.HealthCheck errs.
kafkaHealth == IF HealthCheck(ctxDone, producer) = ErrNil THEN "healthy" ELSE "unhealthy"

\* The handle's lifecycle state, read off the instance and its producer.
State ==
    IF producer = "nil" THEN "Uninitialized"
    ELSE IF ~ctxDone THEN "Open"
    ELSE IF producerState = "closed" THEN "Closed"
    ELSE "Closing"

\* --------------------------------------------------------------------- Close

\* The cases of PublishMessage's second select.
SelectCasesNoSignal == {"input"}

SelectCases == {"input", "ctx", "ks"}

\* An event chose case w of the select a goroutine is parked in.
Woken(r, w) == [r EXCEPT !.pc = "woken", !.wake = w]

\* ks.cancel(): the service's context is done from here on.
CancelSkipped(done) == done

CancelCalled(done) == TRUE

\* Close, first part: ks.cancel(), then (ks.producer != nil) the call of
\* ks.producer.Close() is about to be made. cancel() closes ks.ctx.Done(): every
\* goroutine parked in the second select is woken on that case.
CloseBegin ==
    /\ created = "ok"
    /\ ~faulted
    /\ closer.pc = "idle"
    /\ closer.calls < MaxCloseCalls
    /\ ctxDone' = CancelCalled(ctxDone)
    /\ closer' = [closer EXCEPT !.pc = "cancelled", !.calls = @ + 1,
                                !.onClosed = @ \/ (State = "Closed")]
    /\ pub' = [p \in DOMAIN pub |-> IF pub[p].pc = "parked" /\ "ks" \in SelectCases
                                     THEN Woken(pub[p], "ks") ELSE pub[p]]
    /\ UNCHANGED <<config, producer, created, producerState, input, faulted, main, bg, stats, ev>>

\* ks.producer.Close() is entered: the producer starts shutting down.
ProducerCloseCall ==
    /\ ~faulted
    /\ closer.pc = "cancelled"
    /\ producer # "nil"
    /\ closer' = [closer EXCEPT !.pc = "inClose", !.producerCloses = @ + 1]
    /\ producerState' = IF producerState = "open" THEN "closing" ELSE producerState
    /\ UNCHANGED <<config, producer, ctxDone, created, input, faulted, pub, main, bg, stats, ev>>

\* Close never assigns ks.producer: the field keeps its value when Close returns.
ProducerSetNil == "nil"

ProducerAfterClose == producer

\* ks.producer.Close() returns nil or an error; the buffered messages are flushed.
\* After an error the producer is closed or is left shutting down.

ProducerCloseReturn(err, closed) ==
    /\ ~faulted
    /\ closer.pc = "inClose"
    /\ (~err => closed)
    /\ producerState' = IF closed THEN "closed" ELSE producerState
    /\ input' = <<>>
    /\ producer' = ProducerAfterClose
    /\ closer' = [closer EXCEPT !.pc = "idle",
                                !.err = IF err THEN "failed to close Kafka producer" ELSE ErrNil]
    /\ UNCHANGED <<config, ctxDone, created, faulted, pub, main, bg, stats, ev>>

\* ks.producer.Close() on a producer that was already closed: the library's
\* shutdown runs a second time on closed channels and may panic.
ProducerClosePanic ==
    /\ ~faulted
    /\ closer.pc = "inClose"
    /\ closer.producerCloses >= 2
    /\ producerState = "closed"
    /\ faulted' = TRUE
    /\ UNCHANGED <<config, producer, ctxDone, created, producerState, input, closer, pub, main, bg, stats, ev>>

\* A receive from the full Input(): the head leaves, and when a sender is
\* parked on the channel its message takes the freed place and it is woken.
HandOff ==
    IF \A p \in Pubs : pub[p].pc # "parked"
    THEN input' = Tail(input) /\ pub' = pub
    ELSE \E p \in Pubs :
           /\ pub[p].pc = "parked"
           /\ input' = Append(Tail(input), p)
           /\ pub' = [pub EXCEPT ![p] =
                        Woken([@ EXCEPT !.enq = @ + 1,
                                        !.enqAfterClose = @ + (IF pub[p].sendAfterClose THEN 1 ELSE 0)],
                              "input")]

\* The producer's dispatcher takes the head message off Input().
Dispatch ==
    /\ ~faulted
    /\ producerState \in {"open", "closing"}
    /\ input # <<>>
    /\ HandOff
    /\ UNCHANGED <<config, producer, ctxDone, created, producerState, closer, faulted, main, bg, stats, ev>>

\* Another request's PublishMessage passes its shutdown check and puts its
\* message (key 0) on Input(): the traffic a handler competes with for room.
OtherPublish ==
    /\ created = "ok"
    /\ ~faulted
    /\ ~ctxDone
    /\ producerState = "open"
    /\ Len(input) < QueueCap
    /\ input' = Append(input, 0)
    /\ UNCHANGED <<config, producer, ctxDone, created, producerState, closer, faulted, pub, main, bg, stats, ev>>

\* ------------------------------------------------------ publishEventToKafka

\* A handler's record before TrackEvent has called publishEventToKafka.
\* Program state: pc (idle, call, select, backoff, done, panicked), attempt (the
\* loop variable), err (what PublishEvent last returned), cancelled (the request
\* ctx is done), payloadOK (json.Marshal accepts the event), result and reported
\* (the returned error and its attempt count).
\* History of the run: sends (PublishEvent calls made), errs (what each
\* returned), waits (the backoff sleeps taken, ms), enq (messages put on
\* Input()), closedAtStart (the handle was Closing/Closed when the run began),
\* sendAfterClose (the last call was entered after a Close call began),
\* enqAfterClose (messages such calls put on Input()), cancelInBackoff and
\* sendsAtCancel (the request ctx was cancelled during a sleep, after that
\* many calls), wake (the select case that woke the parked goroutine: ctx, ks
\* or input) and enqAtPark (enq when the goroutine parked).
\* pc parked: the goroutine sleeps in PublishMessage's second select; pc woken:
\* an event has chosen its case and the goroutine has yet to run on.
IdlePub ==
    [pc |-> "idle", attempt |-> 0, err |-> ErrNil, cancelled |-> FALSE, payloadOK |-> TRUE,
     result |-> "none", reported |-> 0,
     sends |-> 0, errs |-> <<>>, waits |-> <<>>, enq |-> 0,
     closedAtStart |-> FALSE, sendAfterClose |-> FALSE, enqAfterClose |-> 0,
     cancelInBackoff |-> FALSE, sendsAtCancel |-> 0,
     wake |-> "none", enqAtPark |-> 0]

\* backoffTime := time.Duration(attempt*attempt) * time.Millisecond * 100, in ms.
backoffLinear(attempt) == attempt * BackoffUnitMs

backoffTime(attempt) == attempt * attempt * BackoffUnitMs

\* if attempt < maxRetries { ... time.Sleep(backoffTime) }
ShouldSleep(attempt) == attempt < maxRetries

\* for attempt := 1; attempt <= maxRetries; attempt++
LoopCondShort(attempt) == attempt < maxRetries

LoopCondConfigured(attempt) == attempt <= config.Retries

LoopCond(attempt) == attempt <= maxRetries

\* if err == nil { return nil }
ReturnsOnSuccessNever(err) == FALSE

ReturnsOnSuccess(err) == err = ErrNil

\* PublishMessage up to its second select: the shutdown check of the first
\* select, then json.Marshal. "select" means the second select is reached.
PublishMessageNoCheck(done, payloadOK) ==
    IF ~payloadOK THEN ErrMarshal ELSE "select"

PublishMessageChecks(done, payloadOK) ==
    IF done THEN ErrShuttingDown
    ELSE IF ~payloadOK THEN ErrMarshal
    ELSE "select"

\* attempt++ and the loop condition: the next PublishEvent call, or the loop
\* ends and fmt.Errorf("... after %d attempts", maxRetries) is returned.
NextAttempt(r) ==
    IF LoopCond(r.attempt + 1)
    THEN [r EXCEPT !.pc = "call", !.attempt = @ + 1]
    ELSE [r EXCEPT !.pc = "done", !.attempt = @ + 1, !.result = "exhausted", !.reported = maxRetries]

\* The loop body after PublishEvent returned e: return nil on success, else log
\* the failure and sleep backoffTime when attempt < maxRetries, else go straight
\* to the next iteration.
AfterPublishEvent(r, e) ==
    LET q == [r EXCEPT !.err = e, !.errs = Append(@, e)] IN
      IF ReturnsOnSuccess(e) THEN [q EXCEPT !.pc = "done", !.result = "ok"]
      ELSE IF ShouldSleep(q.attempt)
           THEN [q EXCEPT !.pc = "backoff", !.waits = Append(@, backoffTime(q.attempt))]
      ELSE NextAttempt(q)

\* TrackEvent calls publishEventToKafka(ctx, enrichedEvent, requestID); the
\* payload handed to json.Marshal can be serialized or not.
StartPublish(p, ok) ==
    /\ created = "ok"
    /\ ~faulted
    /\ pub[p].pc = "idle"
    /\ pub' = [pub EXCEPT ![p] = [@ EXCEPT !.pc = "call", !.attempt = 1, !.payloadOK = ok,
                                            !.closedAtStart = (State \in {"Closing", "Closed"})]]
    /\ UNCHANGED <<config, producer, ctxDone, created, producerState, input, closer, faulted, main, bg, stats, ev>>

\* The loop body calls PublishEvent -> PublishMessage, which runs to its
\* second select or returns an error before it.
PublishMessageEntry(p) ==
    /\ ~faulted
    /\ pub[p].pc = "call"
    /\ LET r == PublishMessageChecks(ctxDone, pub[p].payloadOK)
           q == [pub[p] EXCEPT !.sends = @ + 1, !.sendAfterClose = (closer.calls > 0)] IN
         pub' = [pub EXCEPT ![p] =
                   IF r = "select" THEN [q EXCEPT !.pc = "select"]
                   ELSE AfterPublishEvent(q, r)]
    /\ UNCHANGED <<config, producer, ctxDone, created, producerState, input, closer, faulted, main, bg, stats, ev>>

\* select case ks.producer.Input() <- message: the producer takes the message.
SelectInput(p) ==
    /\ ~faulted
    /\ pub[p].pc = "select"
    /\ producerState \in {"open", "closing"}
    /\ Len(input) < QueueCap
    /\ input' = Append(input, p)
    /\ pub' = [pub EXCEPT ![p] =
                 AfterPublishEvent([@ EXCEPT !.enq = @ + 1,
                                             !.enqAfterClose = @ + (IF pub[p].sendAfterClose THEN 1 ELSE 0)],
                                   ErrNil)]
    /\ UNCHANGED <<config, producer, ctxDone, created, producerState, closer, faulted, main, bg, stats, ev>>

\* select case ks.producer.Input() <- message on a closed producer: the send
\* panics; gin.Recovery ends the request.
SelectInputClosed(p) ==
    /\ ~faulted
    /\ pub[p].pc = "select"
    /\ producerState = "closed"
    /\ pub' = [pub EXCEPT ![p] = [@ EXCEPT !.pc = "panicked"]]
    /\ UNCHANGED <<config, producer, ctxDone, created, producerState, input, closer, faulted, main, bg, stats, ev>>

\* select case <-ctx.Done()
SelectCtxDone(p) ==
    /\ ~faulted
    /\ pub[p].pc = "select"
    /\ pub[p].cancelled
    /\ pub' = [pub EXCEPT ![p] = AfterPublishEvent(@, ErrCtxCancelled)]
    /\ UNCHANGED <<config, producer, ctxDone, created, producerState, input, closer, faulted, main, bg, stats, ev>>

\* select case <-ks.ctx.Done()
SelectKsDone(p) ==
    /\ ~faulted
    /\ pub[p].pc = "select"
    /\ ctxDone
    /\ pub' = [pub EXCEPT ![p] = AfterPublishEvent(@, ErrShuttingDown)]
    /\ UNCHANGED <<config, producer, ctxDone, created, producerState, input, closer, faulted, main, bg, stats, ev>>

\* The second select finds no case ready (Input() is full, neither context is
\* done): the goroutine parks on all three channels.
SelectPark(p) ==
    /\ ~faulted
    /\ pub[p].pc = "select"
    /\ producerState \in {"open", "closing"}
    /\ Len(input) >= QueueCap
    /\ ~pub[p].cancelled
    /\ ~ctxDone
    /\ pub' = [pub EXCEPT ![p] = [@ EXCEPT !.pc = "parked", !.enqAtPark = pub[p].enq]]
    /\ UNCHANGED <<config, producer, ctxDone, created, producerState, input, closer, faulted, main, bg, stats, ev>>

\* The woken goroutine runs the case that was chosen for it and PublishMessage
\* returns: nil after its message went onto Input(), else the case's error.
SelectWake(p) ==
    /\ ~faulted
    /\ pub[p].pc = "woken"
    /\ pub' = [pub EXCEPT ![p] =
                 AfterPublishEvent(@, CASE pub[p].wake = "ctx" -> ErrCtxCancelled
                                        [] pub[p].wake = "ks" -> ErrShuttingDown
                                        [] OTHER -> ErrNil)]
    /\ UNCHANGED <<config, producer, ctxDone, created, producerState, input, closer, faulted, main, bg, stats, ev>>

\* time.Sleep(backoffTime) returns.
SleepDone(p) ==
    /\ ~faulted
    /\ pub[p].pc = "backoff"
    /\ pub' = [pub EXCEPT ![p] = NextAttempt(@)]
    /\ UNCHANGED <<config, producer, ctxDone, created, producerState, input, closer, faulted, main, bg, stats, ev>>

\* The request's context is cancelled (the client went away) while its
\* publishEventToKafka call is running; a goroutine parked in the second
\* select is woken on case <-ctx.Done().
CancelRequest(p) ==
    /\ ~faulted
    /\ pub[p].pc \in {"call", "select", "parked", "woken", "backoff"}
    /\ ~pub[p].cancelled
    /\ LET q == [pub[p] EXCEPT !.cancelled = TRUE,
                               !.cancelInBackoff = (pub[p].pc = "backoff"),
                               !.sendsAtCancel = IF pub[p].pc = "backoff" THEN pub[p].sends ELSE 0] IN
         pub' = [pub EXCEPT ![p] = IF pub[p].pc = "parked" /\ "ctx" \in SelectCases
                                   THEN Woken(q, "ctx") ELSE q]
    /\ UNCHANGED <<config, producer, ctxDone, created, producerState, input, closer, faulted, main, bg, stats, ev>>

\* ------------------------------------------------------ TrackEvent response

\* requestID := uuid.New().String(), one per request.
RequestID(p) == [kind |-> "request", of |-> p]

\* EnrichEvent gives the event its EventID; publishEventToKafka passes it to
\* PublishEvent as the message key (handler p's message is p on Input()).
EventID(p) == [kind |-> "event", of |-> p]

\* What TrackEvent's caller receives once publishEventToKafka is over:
\* gin.Recovery's bare 500 after a panic, the KAFKA_ERROR body after an error,
\* else NewEventResponse(requestID) with EventID set to the enriched event's.
\* processingTime goes to the log and to the handler's copy of the event.
TrackEventResponse(p) ==
    IF pub[p].pc = "panicked" THEN [code |-> 500]
    ELSE IF pub[p].result = "exhausted"
         THEN [code |-> 500, error_code |-> "KAFKA_ERROR", error_message |-> "Failed to process event",
               request_id |-> RequestID(p)]
    ELSE IF pub[p].result = "ok"
         THEN [code |-> 200, status |-> "success",
               message |-> "Event received and processed successfully",
               event_id |-> EventID(p), request_id |-> RequestID(p), timestamp |-> "now"]
    ELSE [code |-> 0]

\* The time the handler has spent since startTime := time.Now(), in ms: the
\* model's clock advances only in time.Sleep.
RECURSIVE SumSeq(_)
SumSeq(q) == IF q = <<>> THEN 0 ELSE Head(q) + SumSeq(Tail(q))

Elapsed(p) == SumSeq(pub[p].waits)

\* enrichedEvent.ProcessingInfo.ProcessingMs: EnrichEvent sets 0; TrackEvent
\* assigns processingTime.Milliseconds() after publishEventToKafka returned
\* nil, and returns before that line when it returned an error.
ProcessingMs(p) == IF pub[p].result = "ok" THEN Elapsed(p) ELSE 0

\* -------------------------------------------------------------- EnrichEvent

\* A payload timestamp is the sequence of the pieces of its text: a date, the
\* separator, the hour (minutes and seconds are 00), the zone. Instants are
\* counted in hours from 2024-01-15T00:00:00Z.
DateValue == [d \in {"2024-01-15", "2024-01-16"} |-> IF d = "2024-01-15" THEN 0 ELSE 24]

HourValue == [h \in {"00:00:00", "10:00:00", "23:00:00"} |->
                IF h = "00:00:00" THEN 0 ELSE IF h = "10:00:00" THEN 10 ELSE 23]

ZoneOffset == [z \in {"Z", "+01:00", "-01:00"} |-> IF z = "Z" THEN 0 ELSE IF z = "+01:00" THEN 1 ELSE 0 - 1]

\* The texts EnrichEvent is given: the empty string, texts of RFC3339 layout,
\* and texts with a piece that is out of range, misplaced or missing.
TimestampInputs ==
    {<<>>, <<"yesterday">>}
    \cup { <<d, t, h, z>> : d \in {"2024-01-15", "2024-01-16", "2024-13-45"}, t \in {"T", " "},
                           h \in {"00:00:00", "10:00:00", "23:00:00", "24:00:00"},
                           z \in {"Z", "+01:00", "-01:00", "UTC"} }
    \cup { <<d, "T", h>> : d \in {"2024-01-15"}, h \in {"10:00:00"} }

\* The values time.Now() returns during enrichment, later than every payload instant.
NowInputs == {100, 101}

\* time.Parse(time.RFC3339, text): the instant, or an error when a piece does
\* not fit the layout or is out of range.
ParseRFC3339(text) ==
    IF /\ Len(text) = 4
       /\ text[1] \in DOMAIN DateValue
       /\ text[2] = "T"
       /\ text[3] \in DOMAIN HourValue
       /\ text[4] \in DOMAIN ZoneOffset
    THEN [err |-> FALSE, instant |-> DateValue[text[1]] + HourValue[text[3]] - ZoneOffset[text[4]]]
    ELSE [err |-> TRUE, instant |-> 0]

\* EnrichEvent's timestamp: now, replaced by the parsed instant when the
\* payload's text is not empty and parses.
EnrichedTimestampNow(text, now) == now

EnrichedTimestamp(text, now) ==
    IF text # <<>> /\ ~ParseRFC3339(text).err THEN ParseRFC3339(text).instant ELSE now

NoEnrich == [text |-> <<>>, now |-> 0, returned |-> FALSE, Timestamp |-> 0]

\* models.EnrichEvent(payload, requestID) runs and returns the enriched event.
EnrichEvent ==
    /\ ~ev.returned
    /\ ev' = [ev EXCEPT !.returned = TRUE, !.Timestamp = EnrichedTimestamp(ev.text, ev.now)]
    /\ UNCHANGED <<config, producer, ctxDone, created, producerState, input, closer, faulted, pub, main, bg, stats>>

\* One EnrichEvent call for every payload timestamp and clock value.
InitEnrich ==
    /\ config = DefaultConfig
    /\ producer = "nil"
    /\ ctxDone = FALSE
    /\ created = "none"
    /\ producerState = "none"
    /\ input = <<>>
    /\ closer = [pc |-> "idle", calls |-> 0, producerCloses |-> 0, err |-> ErrNil, onClosed |-> FALSE]
    /\ faulted = FALSE
    /\ pub = [p \in Pubs |-> IdlePub]
    /\ main = [pc |-> "start", accepting |-> FALSE, forced |-> FALSE]
    /\ bg = [errL |-> "none", sucL |-> "none", dialed |-> FALSE, errors |-> <<>>, logged |-> {}]
    /\ stats = [status |-> "none"]
    /\ ev \in [text : TimestampInputs, now : NowInputs, returned : {FALSE}, Timestamp : {0}]

NextEnrich == EnrichEvent

SpecEnrich == InitEnrich /\ [][NextEnrich]_vars

\* ------------------------------------------------------------ specification

Init ==
    /\ config = DefaultConfig
    /\ producer = "nil"
    /\ ctxDone = FALSE
    /\ created = "none"
    /\ producerState = "none"
    /\ input = <<>>
    /\ closer = [pc |-> "idle", calls |-> 0, producerCloses |-> 0, err |-> ErrNil, onClosed |-> FALSE]
    /\ faulted = FALSE
    /\ pub = [p \in Pubs |-> IdlePub]
    /\ main = [pc |-> "start", accepting |-> FALSE, forced |-> FALSE]
    /\ bg = [errL |-> "none", sucL |-> "none", dialed |-> FALSE, errors |-> <<>>, logged |-> {}]
    /\ stats = [status |-> "none"]
    /\ ev = NoEnrich

Next ==
    \/ \E b \in BOOLEAN : NewKafkaService(b)
    \/ CloseBegin
    \/ ProducerCloseCall
    \/ \E e, c \in BOOLEAN : ProducerCloseReturn(e, c)
    \/ ProducerClosePanic
    \/ Dispatch
    \/ OtherPublish
    \/ \E p \in Pubs : \E ok \in BOOLEAN : StartPublish(p, ok)
    \/ \E p \in Pubs : PublishMessageEntry(p)
    \/ \E p \in Pubs : SelectInput(p)
    \/ \E p \in Pubs : SelectInputClosed(p)
    \/ \E p \in Pubs : SelectCtxDone(p)
    \/ \E p \in Pubs : SelectKsDone(p)
    \/ \E p \in Pubs : SleepDone(p)
    \/ \E p \in Pubs : CancelRequest(p)

Spec == Init /\ [][Next]_vars

\* ------------------------------------------------- listeners, streams, stats

\* The broker's answer for the head message of Input(): an acknowledged message
\* leaves nothing behind (Producer.Return.Successes is never set), a failed one
\* is put on Errors(), which holds QueueCap entries.
Deliver(ok) ==
    /\ ~faulted
    /\ producerState \in {"open", "closing"}
    /\ input # <<>>
    /\ ~ok => Len(bg.errors) < QueueCap
    /\ HandOff
    /\ bg' = IF ok THEN bg ELSE [bg EXCEPT !.errors = Append(@, Head(input))]
    /\ UNCHANGED <<config, producer, ctxDone, created, producerState, closer, faulted, main, stats, ev>>

\* What handleErrors does to the request whose message failed: it logs, the
\* handler's record is not touched.
AfterBrokerErrorFails(r) == [r EXCEPT !.result = "exhausted"]

AfterBrokerError(r) == r

\* A listener's select can take its ks.ctx.Done() case only once cancel() ran.
ListenerMayExitAny(done) == TRUE

ListenerMayExit(done) == done

\* handleErrors, case err := <-ks.producer.Errors(): the key is logged.
handleErrorsRecv ==
    /\ ~faulted
    /\ bg.errL = "running"
    /\ bg.errors # <<>>
    /\ bg' = [bg EXCEPT !.errors = Tail(@), !.logged = @ \cup {Head(bg.errors)}]
    /\ pub' = [p \in Pubs |-> IF p = Head(bg.errors) THEN AfterBrokerError(pub[p]) ELSE pub[p]]
    /\ UNCHANGED <<config, producer, ctxDone, created, producerState, input, closer, faulted, main, stats, ev>>

\* handleErrors, case <-ks.ctx.Done(): return.
handleErrorsExit ==
    /\ ~faulted
    /\ bg.errL = "running"
    /\ ListenerMayExit(ctxDone)
    /\ bg' = [bg EXCEPT !.errL = "stopped"]
    /\ UNCHANGED <<config, producer, ctxDone, created, producerState, input, closer, faulted, pub, main, stats, ev>>

\* handleErrors receives from the Errors() channel the closed producer has
\* closed and emptied: err is nil and err.Msg panics in the goroutine.
handleErrorsClosed ==
    /\ ~faulted
    /\ bg.errL = "running"
    /\ producerState = "closed"
    /\ bg.errors = <<>>
    /\ bg' = [bg EXCEPT !.errL = "panicked"]
    /\ faulted' = TRUE
    /\ UNCHANGED <<config, producer, ctxDone, created, producerState, input, closer, pub, main, stats, ev>>

\* handleSuccesses, case <-ks.ctx.Done(): return.
handleSuccessesExit ==
    /\ ~faulted
    /\ bg.sucL = "running"
    /\ ListenerMayExit(ctxDone)
    /\ bg' = [bg EXCEPT !.sucL = "stopped"]
    /\ UNCHANGED <<config, producer, ctxDone, created, producerState, input, closer, faulted, pub, main, stats, ev>>

\* handleSuccesses receives from the closed Successes() channel: msg is nil
\* and msg.Key panics in the goroutine.
handleSuccessesClosed ==
    /\ ~faulted
    /\ bg.sucL = "running"
    /\ producerState = "closed"
    /\ bg' = [bg EXCEPT !.sucL = "panicked"]
    /\ faulted' = TRUE
    /\ UNCHANGED <<config, producer, ctxDone, created, producerState, input, closer, pub, main, stats, ev>>

\* KafkaService.GetStats: the map it returns.
GetStatsSwapped(prod, cfg) ==
    IF prod = "nil" THEN [status |-> "not_initialized"]
    ELSE [status |-> "active", brokers |-> cfg.Brokers, topic |-> cfg.Topic,
          compression |-> cfg.Acks, acks |-> cfg.Compression, retries |-> cfg.Retries]

GetStatsLifecycle(prod, cfg) ==
    IF prod = "nil" \/ ctxDone THEN [status |-> "not_initialized"]
    ELSE [status |-> "active", brokers |-> cfg.Brokers, topic |-> cfg.Topic,
          compression |-> cfg.Compression, acks |-> cfg.Acks, retries |-> cfg.Retries]

GetStats(prod, cfg) ==
    IF prod = "nil" THEN [status |-> "not_initialized"]
    ELSE [status |-> "active", brokers |-> cfg.Brokers, topic |-> cfg.Topic,
          compression |-> cfg.Compression, acks |-> cfg.Acks, retries |-> cfg.Retries]

\* EventHandler.GetStats: the "kafka" entry of the /api/v1/stats response.
GetStatsHandler ==
    /\ created = "ok"
    /\ ~faulted
    /\ stats' = GetStats(producer, config)
    /\ UNCHANGED <<config, producer, ctxDone, created, producerState, input, closer, faulted, pub, main, bg, ev>>

\* The service as its API allows it to be used, for every configuration it
\* may be given.
InitConn ==
    /\ config \in ConfigInputs
    /\ producer = "nil"
    /\ ctxDone = FALSE
    /\ created = "none"
    /\ producerState = "none"
    /\ input = <<>>
    /\ closer = [pc |-> "idle", calls |-> 0, producerCloses |-> 0, err |-> ErrNil, onClosed |-> FALSE]
    /\ faulted = FALSE
    /\ pub = [p \in Pubs |-> IdlePub]
    /\ main = [pc |-> "start", accepting |-> FALSE, forced |-> FALSE]
    /\ bg = [errL |-> "none", sucL |-> "none", dialed |-> FALSE, errors |-> <<>>, logged |-> {}]
    /\ stats = [status |-> "none"]
    /\ ev = NoEnrich

NextConn ==
    \/ \E b \in BOOLEAN : NewKafkaService(b)
    \/ CloseBegin
    \/ ProducerCloseCall
    \/ \E e, c \in BOOLEAN : ProducerCloseReturn(e, c)
    \/ ProducerClosePanic
    \/ OtherPublish
    \/ \E ok \in BOOLEAN : Deliver(ok)
    \/ handleErrorsRecv
    \/ handleErrorsExit
    \/ handleErrorsClosed
    \/ handleSuccessesExit
    \/ handleSuccessesClosed
    \/ GetStatsHandler

SpecConn == InitConn /\ [][NextConn]_vars

\* The scheduler runs each listener goroutine.
FairConn ==
    /\ WF_vars(handleErrorsRecv \/ handleErrorsExit \/ handleErrorsClosed)
    /\ WF_vars(handleSuccessesExit \/ handleSuccessesClosed)

SpecConnFair == InitConn /\ [][NextConn]_vars /\ FairConn

\* ------------------------------------------------------------ blocked sends

\* One Close call, as main makes it.
CloseOnce ==
    /\ closer.calls = 0
    /\ CloseBegin

\* The service with its senders able to park in the second select.
NextSend ==
    \/ \E b \in BOOLEAN : NewKafkaService(b)
    \/ CloseOnce
    \/ ProducerCloseCall
    \/ \E e, c \in BOOLEAN : ProducerCloseReturn(e, c)
    \/ Dispatch
    \/ OtherPublish
    \/ \E p \in Pubs : \E ok \in BOOLEAN : StartPublish(p, ok)
    \/ \E p \in Pubs : PublishMessageEntry(p)
    \/ \E p \in Pubs : SelectInput(p)
    \/ \E p \in Pubs : SelectInputClosed(p)
    \/ \E p \in Pubs : SelectCtxDone(p)
    \/ \E p \in Pubs : SelectKsDone(p)
    \/ \E p \in Pubs : SelectPark(p)
    \/ \E p \in Pubs : SelectWake(p)
    \/ \E p \in Pubs : SleepDone(p)
    \/ \E p \in Pubs : CancelRequest(p)

SpecSend == Init /\ [][NextSend]_vars

\* The scheduler runs a woken goroutine.
FairSend == \A p \in Pubs : WF_vars(SelectWake(p))

SpecSendFair == Init /\ [][NextSend]_vars /\ FairSend

\* The service and its senders for every configuration it may be given.
SpecRetries == InitConn /\ [][NextSend]_vars

\* ------------------------------------------------- sends and broker answers

\* Handlers publishing on an open service while the broker answers each
\* message and handleErrors reads the failures.
NextAck ==
    \/ \E b \in BOOLEAN : NewKafkaService(b)
    \/ OtherPublish
    \/ \E ok \in BOOLEAN : Deliver(ok)
    \/ handleErrorsRecv
    \/ \E p \in Pubs : \E ok \in BOOLEAN : StartPublish(p, ok)
    \/ \E p \in Pubs : PublishMessageEntry(p)
    \/ \E p \in Pubs : SelectInput(p)
    \/ \E p \in Pubs : SelectCtxDone(p)
    \/ \E p \in Pubs : SleepDone(p)
    \/ \E p \in Pubs : CancelRequest(p)

SpecAck == Init /\ [][NextAck]_vars

\* ------------------------------------------------------------------ func main

\* A handler is between its call of publishEventToKafka and its return.
InFlight(p) == pub[p].pc \in {"call", "select", "parked", "woken", "backoff"}

\* server.Shutdown returns nil once no connection is active.
Drained == \A p \in Pubs : ~InFlight(p)

\* main goes on to build the handler, router and server only when
\* initializeKafkaService returned no error.
ConnectOKAny(c) == c # "none"

ConnectOK(c) == c = "ok"

\* The process has goroutines running: main has not returned nor called Fatal.
ProcessLive == main.pc \in {"running", "draining", "exited"}

\* kafkaService, err := initializeKafkaService(cfg, logger)
MainStart(brokersOK) ==
    /\ main.pc = "start"
    /\ NewKafkaService(brokersOK)

\* logger.Fatal("Failed to initialize Kafka service"): the process exits, no
\* deferred call runs.
MainFatal ==
    /\ main.pc = "start"
    /\ created = "error"
    /\ main' = [main EXCEPT !.pc = "fatal"]
    /\ UNCHANGED <<config, producer, ctxDone, created, producerState, input, closer, faulted, pub, bg, stats, ev>>

\* The deferred Close is registered, handler, router and server are built and
\* the server goroutine runs ListenAndServe; when that fails the goroutine
\* calls logger.Fatal.
MainServe(listenOK) ==
    /\ main.pc = "start"
    /\ ConnectOK(created)
    /\ main' = IF listenOK THEN [main EXCEPT !.pc = "running", !.accepting = TRUE]
                ELSE [main EXCEPT !.pc = "fatal"]
    /\ UNCHANGED <<config, producer, ctxDone, created, producerState, input, closer, faulted, pub, bg, stats, ev>>

\* <-quit returns on SIGINT/SIGTERM; server.Shutdown(ctx) closes the listeners
\* first, so no new request is accepted.
Signal ==
    /\ main.pc = "running"
    /\ main' = [main EXCEPT !.pc = "draining", !.accepting = FALSE]
    /\ UNCHANGED <<config, producer, ctxDone, created, producerState, input, closer, faulted, pub, bg, stats, ev>>

\* server.Shutdown returns nil: every connection went idle; "Server exited".
ShutdownDrained ==
    /\ main.pc = "draining"
    /\ Drained
    /\ main' = [main EXCEPT !.pc = "exited"]
    /\ UNCHANGED <<config, producer, ctxDone, created, producerState, input, closer, faulted, pub, bg, stats, ev>>

\* The 30 s context expires with a handler still running: server.Shutdown
\* returns the context's error, "Server forced to shutdown" is logged, then
\* "Server exited".
ShutdownDeadline ==
    /\ main.pc = "draining"
    /\ \E p \in Pubs : InFlight(p)
    /\ main' = [main EXCEPT !.pc = "exited", !.forced = TRUE]
    /\ UNCHANGED <<config, producer, ctxDone, created, producerState, input, closer, faulted, pub, bg, stats, ev>>

\* main returns: the deferred kafkaService.Close() runs.
MainClose ==
    /\ main.pc = "exited"
    /\ closer.calls = 0
    /\ CloseBegin

\* The deferred Close has returned, main returns and the process ends.
MainStopped ==
    /\ main.pc = "exited"
    /\ closer.calls >= 1
    /\ closer.pc = "idle"
    /\ main' = [main EXCEPT !.pc = "stopped"]
    /\ UNCHANGED <<config, producer, ctxDone, created, producerState, input, closer, faulted, pub, bg, stats, ev>>

\* The process as main runs it: the service is made once, requests are accepted
\* while the server listens, handlers and the producer run until the process
\* ends, Close is the deferred call.
NextMain ==
    \/ \E b \in BOOLEAN : MainStart(b)
    \/ MainFatal
    \/ \E ok \in BOOLEAN : MainServe(ok)
    \/ Signal
    \/ ShutdownDrained
    \/ ShutdownDeadline
    \/ MainClose
    \/ MainStopped
    \/ ProcessLive /\ ProducerCloseCall
    \/ ProcessLive /\ \E e, c \in BOOLEAN : ProducerCloseReturn(e, c)
    \/ ProcessLive /\ Dispatch
    \/ main.accepting /\ OtherPublish
    \/ main.accepting /\ \E p \in Pubs : \E ok \in BOOLEAN : StartPublish(p, ok)
    \/ ProcessLive /\ \E p \in Pubs : PublishMessageEntry(p)
    \/ ProcessLive /\ \E p \in Pubs : SelectInput(p)
    \/ ProcessLive /\ \E p \in Pubs : SelectInputClosed(p)
    \/ ProcessLive /\ \E p \in Pubs : SelectCtxDone(p)
    \/ ProcessLive /\ \E p \in Pubs : SelectKsDone(p)
    \/ ProcessLive /\ \E p \in Pubs : SleepDone(p)
    \/ ProcessLive /\ \E p \in Pubs : CancelRequest(p)

SpecMain == Init /\ [][NextMain]_vars

\* The scheduler runs main and the deadline timer fires; nothing makes the
\* library's producer.Close() return.
FairMain ==
    /\ WF_vars(ShutdownDrained \/ ShutdownDeadline)
    /\ WF_vars(MainClose)
    /\ WF_vars(ProcessLive /\ ProducerCloseCall)
    /\ WF_vars(MainStopped)

SpecMainFair == Init /\ [][NextMain]_vars /\ FairMain

\* ---------------------------------------------------------------- claims

Failed(p) == {i \in 1..Len(pub[p].errs) : pub[p].errs[i] # ErrNil}

\* C1: when every PublishEvent call of a publishEventToKafka run fails, the run
\* ends with the "after 3 attempts" error after exactly maxRetries calls, never
\* fewer, never more, and the error reports maxRetries attempts.
C1_ExhaustedAfterCeiling ==
    \A p \in Pubs :
        /\ pub[p].sends <= maxRetries
        /\ (pub[p].pc = "done" /\ Cardinality(Failed(p)) = Len(pub[p].errs))
              => /\ pub[p].result = "exhausted"
                 /\ pub[p].sends = maxRetries
                 /\ Len(pub[p].errs) = maxRetries
                 /\ pub[p].reported = maxRetries
        /\ pub[p].result = "exhausted"
              => pub[p].pc = "done" /\ Cardinality(Failed(p)) = maxRetries /\ pub[p].sends = maxRetries

\* C1 witness: a run whose three sends each failed on a cancelled request
\* context in the second select has ended exhausted.
C1_Witness ==
    \E p \in Pubs :
        /\ pub[p].pc = "done"
        /\ pub[p].result = "exhausted"
        /\ pub[p].errs = <<ErrCtxCancelled, ErrCtxCancelled, ErrCtxCancelled>>

\* C2 (as claimed): a publishEventToKafka run started on a handle that is
\* already Closing or Closed makes exactly one send and takes no backoff wait.
C2_ClosingIsTerminal ==
    \A p \in Pubs : pub[p].closedAtStart => (pub[p].sends <= 1 /\ pub[p].waits = <<>>)

\* C3 (as claimed): once the request context is cancelled during a backoff
\* sleep, the run makes no further send.
C3_CancelAbortsBackoff ==
    \A p \in Pubs : pub[p].cancelInBackoff => pub[p].sends = pub[p].sendsAtCancel

\* C4 (as claimed): a run whose first send failed in json.Marshal makes exactly
\* one send and enqueues nothing.
C4_SerializationNotRetried ==
    \A p \in Pubs :
        (Len(pub[p].errs) >= 1 /\ pub[p].errs[1] = ErrMarshal)
            => (pub[p].sends = 1 /\ pub[p].enq = 0)

C6_StopsAtFirstSuccess ==
    \A p \in Pubs :
        /\ \A i \in 1..Len(pub[p].errs) :
              pub[p].errs[i] = ErrNil
                 => /\ i = Len(pub[p].errs)
                    /\ pub[p].pc = "done"
                    /\ pub[p].result = "ok"
                    /\ pub[p].sends = i
        /\ pub[p].result = "ok"
              => /\ pub[p].errs # <<>>
                 /\ pub[p].errs[Len(pub[p].errs)] = ErrNil
                 /\ Cardinality(Failed(p)) = pub[p].sends - 1
                 /\ Cardinality(Failed(p)) < maxRetries
                 /\ pub[p].enq = 1

\* C6 witness: a run that failed twice and then succeeded has returned success
\* after three calls.
C6_Witness ==
    \E p \in Pubs :
        /\ pub[p].result = "ok"
        /\ pub[p].sends = 3
        /\ Cardinality(Failed(p)) = 2

\* C7: a PublishMessage call entered after Close has begun returns the
\* shutting-down error from its first select and puts nothing on Input().
C7_SendAfterCloseRejected ==
    \A p \in Pubs :
        /\ pub[p].enqAfterClose = 0
        /\ pub[p].sendAfterClose
              => /\ pub[p].pc \in {"call", "backoff", "done"}
                 /\ pub[p].err = ErrShuttingDown
                 /\ pub[p].errs # <<>>
                 /\ pub[p].errs[Len(pub[p].errs)] = ErrShuttingDown

\* C7 witness: a send was entered after Close began, was rejected, and the
\* handler had put no message on Input().
C7_Witness ==
    \E p \in Pubs :
        /\ pub[p].sendAfterClose
        /\ pub[p].err = ErrShuttingDown
        /\ pub[p].enq = 0
        /\ closer.calls >= 1

\* C8: HealthCheck reports healthy in exactly the states where NewKafkaService
\* has returned the instance and no Close has begun (the handle is Open).
C8_HealthyIffOpen ==
    /\ (kafkaHealth = "healthy") <=> (created = "ok" /\ closer.calls = 0)
    /\ (kafkaHealth = "healthy") <=> (State = "Open")

\* C8 witness: Close has begun on a connected instance and HealthCheck reports
\* unhealthy.
C8_Witness ==
    /\ created = "ok"
    /\ closer.calls >= 1
    /\ kafkaHealth = "unhealthy"

\* C9 (as claimed): a Close call made on an already-Closed handle does not
\* close the underlying producer a second time and does not fault.
C9_SecondCloseNoOp ==
    closer.onClosed => (closer.producerCloses <= 1 /\ ~faulted /\ State = "Closed")

Rank(st) ==
    CASE st = "Uninitialized" -> 0
      [] st = "Open" -> 1
      [] st = "Closing" -> 2
      [] st = "Closed" -> 3

\* C10: every step leaves the lifecycle state where it is or moves it to the
\* next state of Uninitialized -> Open -> Closing -> Closed; no step moves it
\* back, so each transition happens at most once and Open is never re-entered.
C10_LifecycleForward ==
    [][Rank(State') = Rank(State) \/ Rank(State') = Rank(State) + 1]_vars

\* C10 witness: the handle is Closed and a second Close call has been made on it.
C10_Witness ==
    State = "Closed" /\ closer.calls = 2 /\ closer.pc = "idle"

\* C11: after the shutdown signal the process always reaches Stopped, even when
\* the producer's Close never completes. The 30 s deadline bounds only
\* server.Shutdown; the deferred Close has none, so a Close that does not
\* return keeps main from returning.
C11_ShutdownReachesStopped == (main.pc = "draining") ~> (main.pc = "stopped")

\* C12 as stated: at the moment Close begins no Publish is in progress. When
\* the Shutdown deadline elapses with a handler still running, Close begins
\* under it.
C12_NoPublishAtClose ==
    closer.pc = "cancelled" => \A p \in Pubs : ~InFlight(p)

\* C13: requests are served only after NewKafkaService succeeded; when it
\* fails main calls Fatal, the server never accepts and no handler ever runs.
C13_ServeOnlyAfterConnect ==
    /\ main.accepting => created = "ok"
    /\ (\E p \in Pubs : pub[p].pc # "idle") => created = "ok"
    /\ created = "error" =>
          /\ main.pc \in {"start", "fatal"}
          /\ ~main.accepting
          /\ \A p \in Pubs : pub[p] = IdlePub
          /\ input = <<>>
    /\ main.pc = "fatal" => ~main.accepting /\ closer.calls = 0

C13_Witness ==
    /\ main.pc = "fatal"
    /\ created = "error"

\* C14: NewKafkaService given an acks or a compression value the switches do
\* not list fails before sarama.NewAsyncProducer is called; it returns no
\* service (no producer, the context cancelled) and starts neither listener.
C14_UnknownConfigFailsEarly ==
    ( /\ created # "none"
      /\ \/ config.Acks \notin {"all", "1", "0"}
         \/ config.Compression \notin {"none", "gzip", "snappy", "lz4", "zstd"} )
    => /\ created = "error"
       /\ ~bg.dialed
       /\ producer = "nil"
       /\ HealthCheck(ctxDone, producer) # ErrNil
       /\ bg.errL = "none" /\ bg.sucL = "none"
       /\ input = <<>> /\ stats.status = "none" /\ closer.calls = 0

C14_Witness ==
    /\ created = "error"
    /\ config.Acks = "quorum"

\* C15: while the handle is Open both listeners run; a listener has ended only
\* if cancel() has run; once cancel() has run both end (by returning, or with
\* the process when a goroutine panics).
C15_ListenersSpanOpen ==
    /\ [](State = "Open" => bg.errL = "running" /\ bg.sucL = "running")
    /\ []((bg.errL \in {"stopped", "panicked"} \/ bg.sucL \in {"stopped", "panicked"}) => ctxDone)
    /\ (created = "ok" /\ ctxDone) ~> (faulted \/ (bg.errL # "running" /\ bg.sucL # "running"))

\* Both listeners have returned after a Close.
C15_Witness ==
    /\ created = "ok"
    /\ closer.calls >= 1
    /\ bg.errL = "stopped"
    /\ bg.sucL = "stopped"

\* C18: a step that produces a stats response changes nothing else; the status
\* is not_initialized or active, and an active response carries the brokers,
\* topic, compression, acks and retries NewKafkaService was given.
C18_StatsReadOnly ==
    [][stats' # stats =>
         /\ UNCHANGED <<config, producer, ctxDone, created, producerState, input, closer,
                        faulted, pub, main, bg, ev>>
         /\ stats'.status \in {"not_initialized", "active"}
         /\ stats'.status = "active" =>
               /\ stats'.brokers = config.Brokers
               /\ stats'.topic = config.Topic
               /\ stats'.compression = config.Compression
               /\ stats'.acks = config.Acks
               /\ stats'.retries = config.Retries]_vars

\* A response read from a service that was given other values than the defaults.
C18_Witness ==
    /\ stats.status = "active"
    /\ config # DefaultConfig
    /\ stats.retries = config.Retries

\* C16: a PublishMessage parked in its second select because Input() is full
\* does not stay parked once the request's context or the service's context is
\* done: it is woken on that case, goes on to return, and returns that case's
\* error with nothing of its own put on Input().
C16_BlockedSendUnblocks ==
    /\ [](\A p \in Pubs : pub[p].pc = "parked" =>
             ~pub[p].cancelled /\ ~ctxDone /\ Len(input) >= QueueCap)
    /\ [](\A p \in Pubs : (pub[p].pc = "woken" /\ pub[p].wake \in {"ctx", "ks"}) =>
             /\ pub[p].enq = pub[p].enqAtPark
             /\ \A i \in 1..Len(input) : input[i] # p
             /\ pub[p].wake = "ctx" => pub[p].cancelled
             /\ pub[p].wake = "ks" => ctxDone)
    /\ [][\A p \in Pubs :
            (pub[p].pc = "woken" /\ pub'[p].pc # "woken" /\ pub[p].wake \in {"ctx", "ks"}) =>
              /\ pub'[p].err = (IF pub[p].wake = "ctx" THEN ErrCtxCancelled ELSE ErrShuttingDown)
              /\ pub'[p].errs = Append(pub[p].errs, pub'[p].err)
              /\ pub'[p].enq = pub[p].enqAtPark
              /\ input' = input]_vars
    /\ \A p \in Pubs : (pub[p].pc = "woken") ~> (pub[p].pc \notin {"parked", "woken"})

\* A send that was parked has returned the cancellation error and is in its
\* backoff, with nothing enqueued.
C16_Witness ==
    \E p \in Pubs :
      /\ pub[p].wake = "ctx"
      /\ pub[p].pc = "backoff"
      /\ pub[p].err = ErrCtxCancelled
      /\ pub[p].enq = 0

\* C17: PublishMessage returns nil in the step that puts the message on
\* Input(), whatever the broker answers later; a failure the broker reports
\* afterwards is read and logged by handleErrors alone: the handler's returned
\* outcome stays, no further send is made, nothing is put on Input() again.
C17_AcceptedOnEnqueue ==
    /\ [](\A p \in Pubs : pub[p].result = "ok" =>
             /\ pub[p].pc = "done"
             /\ pub[p].err = ErrNil
             /\ pub[p].enq = 1)
    /\ [][\A p \in Pubs : pub'[p].enq > pub[p].enq => pub'[p].result = "ok"]_vars
    /\ [][\A p \in Pubs : pub[p].result = "ok" => pub'[p] = pub[p]]_vars
    /\ [][bg.logged' # bg.logged => pub' = pub /\ input' = input]_vars

\* The broker failed a message whose send had returned nil after one call, and
\* handleErrors has logged it.
C17_Witness ==
    \E p \in Pubs :
      /\ pub[p].result = "ok"
      /\ pub[p].sends = 1
      /\ p \in bg.logged

\* C19: every failed publish is answered with the same response, the
\* KAFKA_ERROR body with the request's ID, whatever made it fail. A publish
\* that fails by panicking on the closed producer's Input() is answered by
\* gin.Recovery instead.
C19_SameFailureResponse ==
    \A p \in Pubs :
      (pub[p].result = "exhausted" \/ pub[p].pc = "panicked") =>
        TrackEventResponse(p) =
          [code |-> 500, error_code |-> "KAFKA_ERROR", error_message |-> "Failed to process event",
           request_id |-> RequestID(p)]

\* C20: the response to a successful publish carries the event's ID (the
\* message key), the request ID and the processing time in milliseconds. The
\* EventResponse has no field for the processing time.
C20_ResultCarriesProcessingTime ==
    \A p \in Pubs :
      pub[p].result = "ok" =>
        /\ TrackEventResponse(p).event_id = EventID(p)
        /\ TrackEventResponse(p).request_id = RequestID(p)
        /\ "processing_ms" \in DOMAIN TrackEventResponse(p)

\* C21: before its publish resolves an event's ProcessingMs is 0; once it has
\* resolved, by success or by the final failure, ProcessingMs is the time
\* elapsed since the request arrived. After a final failure TrackEvent returns
\* without assigning it.
C21_ProcessingMsOnResolution ==
    \A p \in Pubs :
      /\ pub[p].result = "none" => ProcessingMs(p) = 0
      /\ pub[p].result \in {"ok", "exhausted"} => ProcessingMs(p) = Elapsed(p)

\* C22: EnrichEvent always returns; the Timestamp it returns is the instant the
\* payload's text denotes when the text is a well-formed RFC3339 timestamp (the
\* same instant whatever zone it is written in), and the current time when the
\* text is empty or malformed.
C22_TimestampParsedOrNow ==
    /\ ENABLED EnrichEvent \/ ev.returned
    /\ ev.returned =>
         LET t == ev.text
             wellFormed == /\ Len(t) = 4
                           /\ t[1] \in {"2024-01-15", "2024-01-16"}
                           /\ t[2] = "T"
                           /\ t[3] \in {"00:00:00", "10:00:00", "23:00:00"}
                           /\ t[4] \in {"Z", "+01:00", "-01:00"}
         IN /\ ~wellFormed => ev.Timestamp = ev.now
            /\ wellFormed => ev.Timestamp # ev.now
            /\ t = <<"2024-01-15", "T", "10:00:00", "Z">> => ev.Timestamp = 10
            /\ t = <<"2024-01-15", "T", "10:00:00", "+01:00">> => ev.Timestamp = 9
            /\ t = <<"2024-01-15", "T", "23:00:00", "-01:00">> => ev.Timestamp = 24
            /\ t = <<"2024-01-16", "T", "00:00:00", "Z">> => ev.Timestamp = 24

\* The payload's "2024-01-15T10:00:00+01:00" came back as 09:00:00Z.
C22_Witness ==
    /\ ev.returned
    /\ ev.text = <<"2024-01-15", "T", "10:00:00", "+01:00">>
    /\ ev.Timestamp = 9

\* C23: no PublishMessage puts its message on Input() once producer.Close()
\* has been entered: a call that passed its shutdown check before Close either
\* enqueued while the producer was open or returns the shutting-down error.
\* The second select chooses among its ready cases at random: with room on
\* Input() it can take the send although ks.ctx is done, and on the closed
\* producer that send panics.
C23_NoEnqueueAfterProducerClose ==
    [][\A p \in Pubs :
         /\ pub'[p].enq > pub[p].enq => producerState = "open"
         /\ (pub[p].pc = "select" /\ pub'[p].pc # "select" /\ producerState # "open") =>
               pub'[p].err = ErrShuttingDown /\ pub'[p].pc # "panicked"]_vars

C25_CloseCancelsFirst ==
    /\ producerState \in {"closing", "closed"} => ctxDone
    /\ closer.calls >= 1 =>
          /\ ctxDone
          /\ State # "Open"
          /\ kafkaHealth = "unhealthy"
          /\ HealthCheck(ctxDone, producer) = ErrShuttingDown
    /\ closer.err # ErrNil => closer.calls >= 1 /\ closer.producerCloses >= 1
    /\ \A p \in Pubs :
          (pub[p].sendAfterClose /\ pub[p].pc \in {"backoff", "done"}) =>
             /\ pub[p].err = ErrShuttingDown
             /\ pub[p].enqAfterClose = 0

\* producer.Close() failed, Close returned the error, and a PublishMessage
\* entered afterwards was rejected.
C25_Witness ==
    /\ closer.err # ErrNil
    /\ closer.pc = "idle"
    /\ kafkaHealth = "unhealthy"
    /\ \E p \in Pubs : pub[p].sendAfterClose /\ pub[p].err = ErrShuttingDown /\ pub[p].sends >= 1

\* C26: whatever retry count the service is configured with, one
\* publishEventToKafka run makes at most maxRetries (3) PublishEvent calls and
\* gives up after exactly that many failures; the configured count is only
\* what the sarama producer is given as Retry.Max.
C26_AttemptsIgnoreConfig ==
    /\ ProducerRetryMax(config) = config.Retries
    /\ \A p \in Pubs :
          /\ pub[p].sends <= maxRetries
          /\ pub[p].attempt <= maxRetries + 1
          /\ pub[p].result = "exhausted" => pub[p].sends = maxRetries /\ pub[p].reported = maxRetries
          /\ (pub[p].pc = "done" /\ pub[p].result = "ok") => pub[p].sends = Len(pub[p].errs)

\* Configured with 5 retries, a run gave up after its third call.
C26_Witness ==
    /\ config.Retries > maxRetries
    /\ \E p \in Pubs : pub[p].result = "exhausted" /\ pub[p].sends = maxRetries

\* C27: once NewKafkaService has succeeded GetStats answers status active in
\* every state, the Closing and Closed ones included, where HealthCheck reports
\* the shutdown: its status tells only whether the producer was ever created.
C27_StatsActiveAfterClose ==
    /\ created = "ok" => GetStats(producer, config).status = "active"
    /\ created # "ok" => GetStats(producer, config).status = "not_initialized"
    /\ stats.status \in {"none", "active"}
    /\ (created = "ok" /\ State \in {"Closing", "Closed"}) =>
          /\ GetStats(producer, config).status = "active"
          /\ kafkaHealth = "unhealthy"

\* The producer is closed, HealthCheck is unhealthy and GetStats says active.
C27_Witness ==
    /\ State = "Closed"
    /\ kafkaHealth = "unhealthy"
    /\ GetStats(producer, config).status = "active"
    /\ stats.status = "active"

============================================================================
